---- MODULE Spec2Model ----
(***************************************************************************)
(* Model of fan_controller.py: the GPU-temperature driven fan control loop *)
(* (main), its averaging window (TemperatureAverager), the exponential fan *)
(* curve with hysteresis (exponential_fan_curve, calculate_fan_speed), the *)
(* actuator driver (set_fan_speed) and signal handling (GracefulExiter).   *)
(*                                                                         *)
(* Temperatures are whole degrees.  A Python float that the code computes  *)
(* is kept exactly: a mean is the pair sum/count, a curve output is its    *)
(* integer part together with a flag telling whether a fraction remains.   *)
(***************************************************************************)
EXTENDS Integers, Sequences, FiniteSets, TLC

\* ---------------------------------------------------------------- configuration
MIN_SPEED == 18
MAX_SPEED == 100
TEMP_LOW == 70
TEMP_HIGH == 90
SMOOTHING_SAMPLES == 10
\* EXPONENTIAL_FACTOR = 2.5, kept as the fraction 5/2
EXP_FACTOR_NUM == 5
EXP_FACTOR_DEN == 2
\* the literal 2 of "abs(fan_speed - previous_speed) < 2"
HYSTERESIS == 2

\* Python's None, for a value not yet bound
None == 0 - 1

\* ---------------------------------------------------------------- bounds
\* temperatures a card can report in one poll
Temps == {56, 102}
\* averager study: largest window size and number of adds
MaxWindow == 5
MaxAdds == 6

\* ---------------------------------------------------------------- arithmetic
\* Naturals of any size as little-endian sequences of base-10000 digits,
\* for the exact comparison of the powers the curve takes.
RECURSIVE BigMulCarry(_, _, _)
BigMulCarry(a, s, c) ==
    IF a = <<>>
    THEN IF c = 0 THEN <<>> ELSE <<c % 10000>> \o BigMulCarry(<<>>, s, c \div 10000)
    ELSE LET v == Head(a) * s + c
         IN  <<v % 10000>> \o BigMulCarry(Tail(a), s, v \div 10000)

\* a * s for a big natural a and a natural s < 10000
BigMul(a, s) == IF s = 0 THEN <<>> ELSE BigMulCarry(a, s, 0)

RECURSIVE BigPowMul(_, _, _)
\* a * s^e
BigPowMul(a, s, e) == IF e = 0 THEN a ELSE BigPowMul(BigMul(a, s), s, e - 1)

RECURSIVE BigCmpFrom(_, _, _)
\* compares equal-length a and b from digit i downwards: -1, 0 or 1
BigCmpFrom(a, b, i) ==
    IF i = 0 THEN 0
    ELSE IF a[i] < b[i] THEN 0 - 1
    ELSE IF a[i] > b[i] THEN 1
    ELSE BigCmpFrom(a, b, i - 1)

BigCmp(a, b) ==
    IF Len(a) < Len(b) THEN 0 - 1
    ELSE IF Len(a) > Len(b) THEN 1
    ELSE BigCmpFrom(a, b, Len(a))

\* sign of k^den * qn - rp for big naturals qn = q^num and rp = r^den * p^num,
\* i.e. the sign of  k - r * (p/q)^(num/den)
PowCmp(k, qn, rp) == BigCmp(BigPowMul(qn, k, EXP_FACTOR_DEN), rp)

RECURSIVE FloorSearch(_, _, _, _)
\* the largest k in lo..hi with k <= r * (p/q)^(num/den); lo always qualifies
FloorSearch(lo, hi, qn, rp) ==
    IF lo = hi THEN lo
    ELSE LET mid == (lo + hi + 1) \div 2
         IN  IF PowCmp(mid, qn, rp) <= 0
             THEN FloorSearch(mid, hi, qn, rp)
             ELSE FloorSearch(lo, mid - 1, qn, rp)

Max2(a, b) == IF a >= b THEN a ELSE b
Min2(a, b) == IF a <= b THEN a ELSE b

RECURSIVE SeqSum(_)
SeqSum(s) == IF s = <<>> THEN 0 ELSE Head(s) + SeqSum(Tail(s))

RECURSIVE SeqMax(_)
SeqMax(s) == IF Len(s) = 1 THEN s[1] ELSE Max2(Head(s), SeqMax(Tail(s)))

\* max() of a non-empty collection given as a set
SetMax(S) == CHOOSE x \in S : \A y \in S : y <= x

\* ---------------------------------------------------------------- TemperatureAverager
\* a full window that restarts instead of evicting its oldest value
AddTemperature_Restart(history, size, temp) ==
    IF Len(history) < size THEN Append(history, temp) ELSE <<temp>>

\* a full window that drops its newest value to make room
AddTemperature_EvictNewest(history, size, temp) ==
    IF Len(history) < size THEN Append(history, temp)
    ELSE Append(SubSeq(history, 1, Len(history) - 1), temp)

\* deque(maxlen=window_size).append(temp)
AddTemperature(history, size, temp) ==
    IF Len(history) < size THEN Append(history, temp)
    ELSE IF size = 0 THEN history
    ELSE Append(Tail(history), temp)

\* sum(history) / len(history), as the exact fraction num/den
GetSmoothedTemperature(history) ==
    IF history = <<>> THEN None
    ELSE [num |-> SeqSum(history), den |-> Len(history)]

GetMaxTemperature(history) ==
    IF history = <<>> THEN None ELSE SeqMax(history)

IsReady(history, size) == Len(history) >= size \div 2

\* ---------------------------------------------------------------- curve and hysteresis
\* A float result: int is its integer part, frac tells a fraction remains,
\* so the value is int exactly, or lies strictly between int and int + 1.
Float(i, f) == [int |-> i, frac |-> f]

\* the curve without its "temp >= max_temp" branch
ExponentialFanCurve_NoUpper(temp) ==
    IF temp.num <= TEMP_LOW * temp.den THEN Float(MIN_SPEED, FALSE)
    ELSE LET p == temp.num - TEMP_LOW * temp.den
             q == (TEMP_HIGH - TEMP_LOW) * temp.den
             r == MAX_SPEED - MIN_SPEED
             qn == BigPowMul(<<1>>, q, EXP_FACTOR_NUM)
             rp == BigPowMul(BigPowMul(<<1>>, r, EXP_FACTOR_DEN), p, EXP_FACTOR_NUM)
             hi == r * ((p \div q) + 1) * ((p \div q) + 1) * ((p \div q) + 1)
             k == FloorSearch(0, hi, qn, rp)
         IN  Float(MIN_SPEED + k, PowCmp(k, qn, rp) # 0)

\* the curve with "return min_temp" for "return min_speed"
ExponentialFanCurve_ReturnsTemp(temp) ==
    IF temp.num <= TEMP_LOW * temp.den THEN Float(TEMP_LOW, FALSE)
    ELSE IF temp.num >= TEMP_HIGH * temp.den THEN Float(MAX_SPEED, FALSE)
    ELSE LET p == temp.num - TEMP_LOW * temp.den
             q == (TEMP_HIGH - TEMP_LOW) * temp.den
             r == MAX_SPEED - MIN_SPEED
             qn == BigPowMul(<<1>>, q, EXP_FACTOR_NUM)
             rp == BigPowMul(BigPowMul(<<1>>, r, EXP_FACTOR_DEN), p, EXP_FACTOR_NUM)
             hi == r * ((p \div q) + 1) * ((p \div q) + 1) * ((p \div q) + 1)
             k == FloorSearch(0, hi, qn, rp)
         IN  Float(MIN_SPEED + k, PowCmp(k, qn, rp) # 0)

ExponentialFanCurve(temp) ==
    IF temp.num <= TEMP_LOW * temp.den THEN Float(MIN_SPEED, FALSE)
    ELSE IF temp.num >= TEMP_HIGH * temp.den THEN Float(MAX_SPEED, FALSE)
    ELSE LET p == temp.num - TEMP_LOW * temp.den
             q == (TEMP_HIGH - TEMP_LOW) * temp.den
             r == MAX_SPEED - MIN_SPEED
             qn == BigPowMul(<<1>>, q, EXP_FACTOR_NUM)
             rp == BigPowMul(BigPowMul(<<1>>, r, EXP_FACTOR_DEN), p, EXP_FACTOR_NUM)
             hi == r * ((p \div q) + 1) * ((p \div q) + 1) * ((p \div q) + 1)
             k == FloorSearch(0, hi, qn, rp)
         IN  Float(MIN_SPEED + k, PowCmp(k, qn, rp) # 0)

\* "<=" for "<" in the hysteresis test
AbsDiffBelow_Inclusive(fan_speed, previous_speed, threshold) ==
    IF fan_speed.frac
    THEN /\ fan_speed.int - previous_speed >= 0 - threshold
         /\ fan_speed.int + 1 - previous_speed <= threshold
    ELSE /\ fan_speed.int - previous_speed >= 0 - threshold
         /\ fan_speed.int - previous_speed <= threshold

\* abs(fan_speed - previous_speed) < threshold, previous_speed an integer
AbsDiffBelow(fan_speed, previous_speed, threshold) ==
    IF fan_speed.frac
    THEN /\ fan_speed.int - previous_speed >= 0 - threshold
         /\ fan_speed.int + 1 - previous_speed <= threshold
    ELSE /\ fan_speed.int - previous_speed > 0 - threshold
         /\ fan_speed.int - previous_speed < threshold

\* no hysteresis: the truncated curve value is always returned
CalculateFanSpeed_NoHysteresis(max_temp, previous_speed) ==
    ExponentialFanCurve(max_temp).int

\* hysteresis tested on the signed difference, "abs" left out
CalculateFanSpeed_NoAbs(max_temp, previous_speed) ==
    LET fan_speed == ExponentialFanCurve(max_temp)
    IN  IF /\ previous_speed # None
           /\ fan_speed.int < previous_speed + HYSTERESIS
        THEN previous_speed
        ELSE fan_speed.int

\* hysteresis tested on the truncated speed
CalculateFanSpeed_IntTarget(max_temp, previous_speed) ==
    LET fan_speed == ExponentialFanCurve(max_temp)
    IN  IF /\ previous_speed # None
           /\ AbsDiffBelow(Float(fan_speed.int, FALSE), previous_speed, HYSTERESIS)
        THEN previous_speed
        ELSE fan_speed.int

CalculateFanSpeed(max_temp, previous_speed) ==
    LET fan_speed == ExponentialFanCurve(max_temp)
    IN  IF previous_speed # None /\ AbsDiffBelow(fan_speed, previous_speed, HYSTERESIS)
        THEN previous_speed
        ELSE fan_speed.int

\* ---------------------------------------------------------------- set_fan_speed
\* percent = max(MIN_SPEED, min(percent, MAX_SPEED))
ClampPercent(percent) == Max2(MIN_SPEED, Min2(percent, MAX_SPEED))

\* hex_value = int(percent * 100 / 100): the byte handed to ipmitool
HexValue(percent) == (ClampPercent(percent) * 100) \div 100

\* ---------------------------------------------------------------- state
VARIABLES
    pc,                   \* where main() stands
    should_exit,          \* GracefulExiter.should_exit (the ShutdownFlag)
    temperature_history,  \* TemperatureAverager.temperature_history
    window_size,          \* TemperatureAverager.window_size
    current_fan_speed,    \* main's current_fan_speed (appliedSpeed)
    new_fan_speed,        \* main's new_fan_speed, None until first bound
    current_max_temp,     \* main's current_max_temp, None until first bound
    lastDelivered,        \* byte of the last ipmitool command that exited 0
    retry,                \* the command in flight follows a failed command
    added,                \* add_temperature calls made (averager study)
    addedLog,             \* the values added, in order (averager study)
    fan_speed,            \* calculate_fan_speed's fan_speed (curve study)
    handler_output,       \* handle_signal has printed
    averResult            \* what the last averager query returned (averager study)

vars == <<pc, should_exit, temperature_history, window_size, current_fan_speed,
          new_fan_speed, current_max_temp, lastDelivered, retry, added,
          addedLog, fan_speed, handler_output, averResult>>

\* what get_gpu_temperatures returns on success: a non-empty list, kept as
\* the set of the values it holds (max() sees neither order nor repetition)
Readings == (SUBSET Temps) \ {{}}

\* positions of main() inside the while loop:
\*   top         the loop condition (line 181)
\*   read        get_gpu_temperatures() called (line 183)
\*   sleep_fail  time.sleep of a tick whose read failed (line 187)
\*   write       set_fan_speed(new_fan_speed) called (line 207)
\*   assign      set_fan_speed returned True (line 208 is next)
\*   sleep       time.sleep at the end of a tick (line 214)
LoopPcs == {"top", "read", "sleep_fail", "write", "assign", "sleep"}

\* main() up to the call set_fan_speed(current_fan_speed) of line 176
Init ==
    /\ pc = "init_set"
    /\ should_exit = FALSE
    /\ temperature_history = <<>>
    /\ window_size = SMOOTHING_SAMPLES
    /\ current_fan_speed = MIN_SPEED
    /\ new_fan_speed = None
    /\ current_max_temp = None
    /\ lastDelivered = None
    /\ retry = FALSE
    /\ added = 0
    /\ addedLog = <<>>
    /\ fan_speed = None
    /\ handler_output = FALSE
    /\ averResult = <<"none">>

\* the initial set_fan_speed returns; main discards what it returns
InitSetReturn(ok) ==
    /\ pc = "init_set"
    /\ lastDelivered' = IF ok THEN HexValue(current_fan_speed) ELSE lastDelivered
    /\ pc' = "install"
    /\ UNCHANGED <<should_exit, temperature_history, window_size,
                   current_fan_speed, new_fan_speed, current_max_temp, retry,
                   added, addedLog, fan_speed, handler_output, averResult>>

\* exiter = GracefulExiter(): the flag is created and the handlers installed
InstallHandler ==
    /\ pc = "install"
    /\ should_exit' = FALSE
    /\ pc' = "top"
    /\ UNCHANGED <<temperature_history, window_size, current_fan_speed,
                   new_fan_speed, current_max_temp, lastDelivered, retry,
                   added, addedLog, fan_speed, handler_output, averResult>>

\* a loop that commands MIN_SPEED when it observes the flag
LoopTop_ShutdownCommand ==
    /\ pc = "top"
    /\ IF should_exit
       THEN pc' = "write" /\ new_fan_speed' = MIN_SPEED
       ELSE pc' = "read" /\ new_fan_speed' = new_fan_speed
    /\ UNCHANGED <<should_exit, temperature_history, window_size,
                   current_fan_speed, current_max_temp, lastDelivered, retry,
                   added, addedLog, fan_speed, handler_output, averResult>>

\* while not exiter.exit_requested(): leave the loop, or start a tick by
\* calling get_gpu_temperatures
LoopTop ==
    /\ pc = "top"
    /\ pc' = IF should_exit THEN "done" ELSE "read"
    /\ UNCHANGED <<should_exit, temperature_history, window_size,
                   current_fan_speed, new_fan_speed, current_max_temp,
                   lastDelivered, retry,
                   added, addedLog, fan_speed, handler_output, averResult>>

\* a failed read taken as a temperature of zero
ReadFail_Zero ==
    /\ pc = "read"
    /\ temperature_history' = AddTemperature(temperature_history, window_size, 0)
    /\ pc' = "sleep_fail"
    /\ UNCHANGED <<should_exit, window_size, current_fan_speed, new_fan_speed,
                   current_max_temp, lastDelivered, retry,
                   added, addedLog, fan_speed, handler_output, averResult>>

\* get_gpu_temperatures returns None: print, then sleep
ReadFail ==
    /\ pc = "read"
    /\ pc' = "sleep_fail"
    /\ UNCHANGED <<should_exit, temperature_history, window_size,
                   current_fan_speed, new_fan_speed, current_max_temp,
                   lastDelivered, retry,
                   added, addedLog, fan_speed, handler_output, averResult>>

\* a tick that does not ask is_ready() before acting
ReadOk_NoWarmup(temperatures) ==
    /\ pc = "read"
    /\ current_max_temp' = SetMax(temperatures)
    /\ temperature_history' =
           AddTemperature(temperature_history, window_size, current_max_temp')
    /\ new_fan_speed' =
           CalculateFanSpeed(GetSmoothedTemperature(temperature_history'),
                             current_fan_speed)
    /\ IF new_fan_speed' # current_fan_speed
       THEN /\ pc' = "write"
            /\ retry' = (new_fan_speed \notin {None, current_fan_speed})
       ELSE /\ pc' = "sleep"
            /\ retry' = FALSE
    /\ UNCHANGED <<should_exit, window_size, current_fan_speed, lastDelivered,
                   added, addedLog, fan_speed, handler_output, averResult>>

\* a loop whose first decision is made with no previous speed
ReadOk_FirstUnconditional(temperatures) ==
    /\ pc = "read"
    /\ current_max_temp' = SetMax(temperatures)
    /\ temperature_history' =
           AddTemperature(temperature_history, window_size, current_max_temp')
    /\ IF IsReady(temperature_history', window_size)
       THEN /\ new_fan_speed' =
                   CalculateFanSpeed(GetSmoothedTemperature(temperature_history'),
                                     IF new_fan_speed = None
                                     THEN None ELSE current_fan_speed)
            /\ IF new_fan_speed' # current_fan_speed
               THEN /\ pc' = "write"
                    /\ retry' = (new_fan_speed \notin {None, current_fan_speed})
               ELSE /\ pc' = "sleep"
                    /\ retry' = FALSE
       ELSE /\ new_fan_speed' = new_fan_speed
            /\ pc' = "sleep"
            /\ retry' = FALSE
    /\ UNCHANGED <<should_exit, window_size, current_fan_speed, lastDelivered,
                   added, addedLog, fan_speed, handler_output, averResult>>

\* get_gpu_temperatures returns a list: lines 190-211, up to the call of
\* set_fan_speed (when one is made) or to the sleep
ReadOk(temperatures) ==
    /\ pc = "read"
    /\ current_max_temp' = SetMax(temperatures)
    /\ temperature_history' =
           AddTemperature(temperature_history, window_size, current_max_temp')
    /\ IF IsReady(temperature_history', window_size)
       THEN /\ new_fan_speed' =
                   CalculateFanSpeed(GetSmoothedTemperature(temperature_history'),
                                     current_fan_speed)
            /\ IF new_fan_speed' # current_fan_speed
               THEN /\ pc' = "write"
                    /\ retry' = (new_fan_speed \notin {None, current_fan_speed})
               ELSE /\ pc' = "sleep"
                    /\ retry' = FALSE
       ELSE /\ new_fan_speed' = new_fan_speed
            /\ pc' = "sleep"
            /\ retry' = FALSE
    /\ UNCHANGED <<should_exit, window_size, current_fan_speed, lastDelivered,
                   added, addedLog, fan_speed, handler_output, averResult>>

\* a loop that does not test what set_fan_speed returns
WriteReturn_Unchecked(ok) ==
    /\ pc = "write"
    /\ lastDelivered' = IF ok THEN HexValue(new_fan_speed) ELSE lastDelivered
    /\ pc' = "assign"
    /\ retry' = (ok /\ retry)
    /\ UNCHANGED <<should_exit, temperature_history, window_size,
                   current_fan_speed, new_fan_speed, current_max_temp,
                   added, addedLog, fan_speed, handler_output, averResult>>

\* a loop that a failed actuator command ends
WriteReturn_Fatal(ok) ==
    /\ pc = "write"
    /\ lastDelivered' = IF ok THEN HexValue(new_fan_speed) ELSE lastDelivered
    /\ pc' = IF ok THEN "assign" ELSE "done"
    /\ retry' = (ok /\ retry)
    /\ UNCHANGED <<should_exit, temperature_history, window_size,
                   current_fan_speed, new_fan_speed, current_max_temp,
                   added, addedLog, fan_speed, handler_output, averResult>>

\* set_fan_speed(new_fan_speed) returns inside the loop; ok is ipmitool's
\* returncode == 0
WriteReturn(ok) ==
    /\ pc = "write"
    /\ lastDelivered' = IF ok THEN HexValue(new_fan_speed) ELSE lastDelivered
    /\ pc' = IF ok THEN "assign" ELSE "sleep"
    /\ retry' = (ok /\ retry)
    /\ UNCHANGED <<should_exit, temperature_history, window_size,
                   current_fan_speed, new_fan_speed, current_max_temp,
                   added, addedLog, fan_speed, handler_output, averResult>>

\* current_fan_speed = new_fan_speed (line 208)
Assign ==
    /\ pc = "assign"
    /\ current_fan_speed' = new_fan_speed
    /\ retry' = FALSE
    /\ pc' = "sleep"
    /\ UNCHANGED <<should_exit, temperature_history, window_size, new_fan_speed,
                   current_max_temp, lastDelivered,
                   added, addedLog, fan_speed, handler_output, averResult>>

\* a sleep that is cut short by the flag
Sleep_ChecksFlag ==
    /\ pc \in {"sleep", "sleep_fail"}
    /\ pc' = IF should_exit THEN "done" ELSE "top"
    /\ UNCHANGED <<should_exit, temperature_history, window_size,
                   current_fan_speed, new_fan_speed, current_max_temp,
                   lastDelivered, retry,
                   added, addedLog, fan_speed, handler_output, averResult>>

\* time.sleep(CHECK_INTERVAL) returns, at line 187 (continue) or line 214
Sleep ==
    /\ pc \in {"sleep", "sleep_fail"}
    /\ pc' = "top"
    /\ UNCHANGED <<should_exit, temperature_history, window_size,
                   current_fan_speed, new_fan_speed, current_max_temp,
                   lastDelivered, retry,
                   added, addedLog, fan_speed, handler_output, averResult>>

\* SIGTERM or SIGINT arrives before GracefulExiter() has installed the
\* handlers: the default disposition ends the process (SIGTERM kills it,
\* SIGINT raises KeyboardInterrupt outside main's try). A command in flight
\* may or may not have reached the actuator.
SignalBeforeInstall ==
    /\ pc \in {"init_set", "install"}
    /\ pc' = "aborted"
    /\ \/ lastDelivered' = lastDelivered
       \/ pc = "init_set" /\ lastDelivered' = HexValue(current_fan_speed)
    /\ UNCHANGED <<should_exit, temperature_history, window_size,
                   current_fan_speed, new_fan_speed, current_max_temp, retry,
                   added, addedLog, fan_speed, handler_output, averResult>>

\* GracefulExiter.handle_signal runs between two steps of main: it prints
\* (line 32) and sets the flag (line 33)
HandleSignal ==
    /\ pc \in LoopPcs \cup {"done"}
    /\ handler_output' = TRUE
    /\ should_exit' = TRUE
    /\ UNCHANGED <<pc, temperature_history, window_size, current_fan_speed,
                   new_fan_speed, current_max_temp, lastDelivered, retry,
                   added, addedLog, fan_speed, averResult>>

MainStep ==
    \/ \E ok \in BOOLEAN : InitSetReturn(ok)
    \/ InstallHandler
    \/ LoopTop
    \/ ReadFail
    \/ \E temperatures \in Readings : ReadOk(temperatures)
    \/ \E ok \in BOOLEAN : WriteReturn(ok)
    \/ Assign
    \/ Sleep

Next ==
    \/ MainStep
    \/ SignalBeforeInstall
    \/ HandleSignal

Spec == Init /\ [][Next]_vars

\* every external call returns (its own timeout bounds it) and main goes on
FairSpec == Spec /\ WF_vars(MainStep)

\* ---------------------------------------------------------------- unexpected errors
\* A statement of the loop body raises an exception other than
\* KeyboardInterrupt: "except Exception" (lines 218-221) prints the message
\* and the traceback, "finally" prints the stop line, and main returns.
UnexpectedError ==
    /\ pc \in LoopPcs \ {"top"}
    /\ pc' = "caught"
    /\ UNCHANGED <<should_exit, temperature_history, window_size,
                   current_fan_speed, new_fan_speed, current_max_temp,
                   lastDelivered, retry, added, addedLog, fan_speed,
                   handler_output, averResult>>

NextErr == Next \/ UnexpectedError

ErrSpec == Init /\ [][NextErr]_vars

\* the exit status of the process once main has returned: the script ends
\* after the call of main() on line 238, with no sys.exit
ExitStatus == IF pc \in {"done", "caught"} THEN 0 ELSE None

\* ---------------------------------------------------------------- averager study
\* A TemperatureAverager of any window size, fed any sequence of adds.
InitAvg ==
    /\ pc = "avg"
    /\ window_size \in 1..MaxWindow
    /\ temperature_history = <<>>
    /\ added = 0
    /\ should_exit = FALSE
    /\ current_fan_speed = MIN_SPEED
    /\ new_fan_speed = None
    /\ current_max_temp = None
    /\ lastDelivered = None
    /\ retry = FALSE
    /\ addedLog = <<>>
    /\ fan_speed = None
    /\ handler_output = FALSE
    /\ averResult = <<"none">>

\* temp_averager.add_temperature(temp)
AverAdd(temp) ==
    /\ pc = "avg"
    /\ added < MaxAdds
    /\ temperature_history' = AddTemperature(temperature_history, window_size, temp)
    /\ added' = added + 1
    /\ addedLog' = Append(addedLog, temp)
    /\ UNCHANGED <<pc, should_exit, window_size, current_fan_speed,
                   new_fan_speed, current_max_temp, lastDelivered, retry,
                   fan_speed, handler_output, averResult>>

\* a call of get_smoothed_temperature, get_max_temperature or is_ready
AverQuery(result) ==
    /\ pc = "avg"
    /\ averResult' = result
    /\ UNCHANGED <<pc, should_exit, temperature_history, window_size,
                   current_fan_speed, new_fan_speed, current_max_temp,
                   lastDelivered, retry, added, addedLog, fan_speed,
                   handler_output>>

AverGetSmoothed ==
    AverQuery(<<"smoothed", GetSmoothedTemperature(temperature_history)>>)

AverGetMax == AverQuery(<<"max", GetMaxTemperature(temperature_history)>>)

AverIsReady == AverQuery(<<"ready", IsReady(temperature_history, window_size)>>)

NextAvg ==
    \/ \E temp \in Temps : AverAdd(temp)
    \/ AverGetSmoothed
    \/ AverGetMax
    \/ AverIsReady

AvgSpec == InitAvg /\ [][NextAvg]_vars

\* ---------------------------------------------------------------- curve study
\* exponential_fan_curve and calculate_fan_speed as pure functions: any
\* previous speed (or none), any smoothed temperature of a window of one or
\* two whole degrees around the ramp.
ProbeTemps == (TEMP_LOW - 4)..(TEMP_HIGH + 4)

ProbeWindows == {<<t>> : t \in ProbeTemps} \cup {<<t, t + 1>> : t \in ProbeTemps}

InitCalc ==
    /\ pc = "calc"
    /\ temperature_history \in ProbeWindows
    /\ current_fan_speed \in (MIN_SPEED..MAX_SPEED) \cup {None}
    /\ window_size = SMOOTHING_SAMPLES
    /\ new_fan_speed = None
    /\ fan_speed = None
    /\ should_exit = FALSE
    /\ current_max_temp = None
    /\ lastDelivered = None
    /\ retry = FALSE
    /\ added = 0
    /\ addedLog = <<>>
    /\ handler_output = FALSE
    /\ averResult = <<"none">>

\* exponential_fan_curve(temp) called and returned
CallCurve ==
    /\ pc = "calc"
    /\ fan_speed' =
           ExponentialFanCurve(GetSmoothedTemperature(temperature_history))
    /\ pc' = "curve_done"
    /\ UNCHANGED <<should_exit, temperature_history, window_size,
                   current_fan_speed, new_fan_speed, current_max_temp,
                   lastDelivered, retry, added, addedLog, handler_output,
                   averResult>>

\* calculate_fan_speed(max_temp, previous_speed) called and returned
CallCalculate ==
    /\ pc = "calc"
    /\ fan_speed' =
           ExponentialFanCurve(GetSmoothedTemperature(temperature_history))
    /\ new_fan_speed' =
           CalculateFanSpeed(GetSmoothedTemperature(temperature_history),
                             current_fan_speed)
    /\ pc' = "calc_done"
    /\ UNCHANGED <<should_exit, temperature_history, window_size,
                   current_fan_speed, current_max_temp, lastDelivered, retry,
                   added, addedLog, handler_output, averResult>>

NextCalc == CallCurve \/ CallCalculate

CalcSpec == InitCalc /\ [][NextCalc]_vars

TypeOK ==
    /\ pc \in {"init_set", "install", "aborted", "done", "caught", "avg",
              "calc", "curve_done", "calc_done"} \cup LoopPcs
    /\ should_exit \in BOOLEAN
    /\ Len(temperature_history) <= window_size
    /\ current_fan_speed \in Int
    /\ retry \in BOOLEAN
    /\ added \in 0..MaxAdds

\* ---------------------------------------------------------------- properties
\* what calculate_fan_speed gives for the window and the applied speed
Decided ==
    CalculateFanSpeed(GetSmoothedTemperature(temperature_history),
                      current_fan_speed)

Ready == IsReady(temperature_history, window_size)

\* a step in which get_gpu_temperatures returns a list
ReadOkStep == pc = "read" /\ pc' \in {"write", "sleep"}

\* C1: current_fan_speed changes only by the assignment that follows a
\* set_fan_speed call that returned True, and becomes the commanded value,
\* which is then the value delivered; a call that returns False leaves it
\* unchanged; and every warmed-up tick whose decision (new_fan_speed)
\* differs from current_fan_speed issues that command, also after a failure.
C1_AppliedFollowsSuccess ==
    [][ /\ (current_fan_speed' # current_fan_speed =>
               /\ pc = "assign"
               /\ current_fan_speed' = new_fan_speed
               /\ lastDelivered = HexValue(new_fan_speed))
        /\ (pc = "write" /\ pc' = "sleep" =>
               /\ current_fan_speed' = current_fan_speed
               /\ lastDelivered' = lastDelivered)
        /\ (ReadOkStep /\ Ready' =>
               (pc' = "write" <=> new_fan_speed' # current_fan_speed))
        /\ (pc = "write" => new_fan_speed = Decided)
      ]_vars

\* C1 witness: a command issued again after a failed one has succeeded
C1_Witness == pc = "assign" /\ retry /\ new_fan_speed # current_fan_speed

\* C2: a tick whose sensor read fails changes neither the window nor
\* current_fan_speed, issues no actuator command, and leads through its
\* sleep back to the loop condition, which polls again unless shutdown was
\* requested.
C2_SensorFailureIsInert ==
    [][ /\ (pc = "read" /\ pc' \notin {"read", "write", "sleep"} =>
               /\ pc' = "sleep_fail"
               /\ UNCHANGED <<temperature_history, current_fan_speed,
                              new_fan_speed, lastDelivered>>)
        /\ (pc = "sleep_fail" =>
               /\ pc' \in {"sleep_fail", "top"}
               /\ UNCHANGED <<temperature_history, current_fan_speed,
                              new_fan_speed, lastDelivered>>)
        /\ (pc = "top" /\ ~should_exit /\ ~should_exit' => pc' \in {"top", "read"})
      ]_vars

\* C2 witness: a failed read in a run that has a full window and a raised speed
C2_Witness ==
    /\ pc = "sleep_fail"
    /\ Len(temperature_history) = window_size
    /\ current_fan_speed > MIN_SPEED

\* C3: at every tick boundary current_fan_speed is the percentage of the
\* most recent actuator command that reported success.
C3_AppliedIsLastDelivered == pc = "top" => current_fan_speed = lastDelivered

\* C4: the loop is left only from its condition and only with the flag set;
\* the step that observes the flag, and every step after it, issues no
\* sensor read and no actuator command and leaves the applied speed alone.
C4_ExitOnlyAtTop ==
    [][ /\ (pc' = "done" /\ pc # "done" => pc = "top" /\ should_exit)
        /\ (pc = "top" /\ should_exit =>
               /\ pc' \in {"top", "done"}
               /\ UNCHANGED <<temperature_history, current_fan_speed,
                              new_fan_speed, lastDelivered>>)
        /\ (pc = "done" =>
               /\ pc' = "done"
               /\ UNCHANGED <<temperature_history, current_fan_speed,
                              new_fan_speed, lastDelivered>>)
      ]_vars

\* C4 witness: the loop has exited with the actuator left at a raised speed
C4_Witness ==
    /\ pc = "done"
    /\ current_fan_speed > MIN_SPEED
    /\ lastDelivered = current_fan_speed

\* C5: with the flag set in the middle of a tick, the tick goes on as it
\* would have (its read returns, its command is issued and applied), the
\* loop is not left from inside the tick, no new tick starts, and the loop
\* eventually exits.
C5_TickCompletesThenExit ==
    /\ [][ /\ (should_exit /\ ReadOkStep /\ Ready'
                  /\ new_fan_speed' # current_fan_speed => pc' = "write")
           /\ (should_exit /\ pc \in LoopPcs \ {"top"}
                  => pc' \in LoopPcs)
           /\ (should_exit /\ pc = "top" => pc' \in {"top", "done"})
         ]_vars
    /\ (should_exit /\ pc \in LoopPcs) ~> (pc = "done")

\* C5 witness: the flag is set and the command of the tick in flight has
\* been carried out and is about to be recorded
C5_Witness == should_exit /\ pc = "assign"

\* C6: no signal, whenever it arrives after main() has started, ends the
\* process or cuts short a call in progress.
C6_SignalNeverAborts == pc # "aborted"

\* C7: the loop is left only when the flag is set.
C7_ExitOnlyOnShutdown == pc = "done" => should_exit

\* C7 witness: the loop was left on shutdown after a tick whose actuator
\* command had failed
C7_Witness ==
    /\ pc = "done"
    /\ should_exit
    /\ new_fan_speed \notin {None, current_fan_speed}

\* C8: current_fan_speed, every percentage handed to set_fan_speed and every
\* byte handed to ipmitool is an integer of MIN_SPEED..MAX_SPEED.
C8_SpeedsInRange ==
    /\ current_fan_speed \in MIN_SPEED..MAX_SPEED
    /\ (pc \in {"write", "assign"} => new_fan_speed \in MIN_SPEED..MAX_SPEED)
    /\ (lastDelivered # None => lastDelivered \in MIN_SPEED..MAX_SPEED)

\* C8 witness: a value from inside the curve is about to become the applied speed
C8_Witness ==
    /\ pc = "assign"
    /\ new_fan_speed \notin {MIN_SPEED, MAX_SPEED}

\* C9: a tick whose window is not warmed up after the sample is added only
\* adds the sample: nothing is computed, no command is issued and
\* current_fan_speed is unchanged.
C9_ObserveOnly ==
    [][ ReadOkStep /\ ~Ready' =>
           /\ temperature_history' = Append(temperature_history, current_max_temp')
           /\ pc' = "sleep"
           /\ UNCHANGED <<current_fan_speed, new_fan_speed, lastDelivered>>
      ]_vars

\* C9 witness: hot readings during warm-up, nothing computed or commanded
C9_Witness ==
    /\ pc = "sleep"
    /\ ~Ready
    /\ Len(temperature_history) > 1
    /\ current_max_temp > TEMP_HIGH
    /\ new_fan_speed = None

\* C10 as stated: is_ready() is true exactly from ceil(window_size / 2)
\* samples on.
C10_ReadyFromCeilHalf ==
    pc = "avg" => (Ready <=> added >= (window_size + 1) \div 2)

\* C10 amended: is_ready() is true exactly from window_size // 2 (rounded
\* down) samples on, and once true it stays true after every add.
C10_ReadyFromFloorHalf ==
    /\ [](pc = "avg" => (Ready <=> added >= window_size \div 2))
    /\ [][pc = "avg" /\ Ready => Ready']_vars

\* C10 witness: an odd window that is ready below ceil(window_size / 2)
C10_Witness ==
    /\ pc = "avg"
    /\ window_size = 3
    /\ added = 1
    /\ Ready

\* the smoothed temperature of the window
Smoothed == GetSmoothedTemperature(temperature_history)

\* the curve's value at temp is below the integer m: for a temperature on
\* the ramp, m - MIN_SPEED > (MAX_SPEED - MIN_SPEED) * normalized^factor
CurveLess(temp, m) ==
    IF temp.num <= TEMP_LOW * temp.den THEN MIN_SPEED < m
    ELSE IF temp.num >= TEMP_HIGH * temp.den THEN MAX_SPEED < m
    ELSE /\ m > MIN_SPEED
         /\ PowCmp(m - MIN_SPEED,
                   BigPowMul(<<1>>, (TEMP_HIGH - TEMP_LOW) * temp.den, EXP_FACTOR_NUM),
                   BigPowMul(BigPowMul(<<1>>, MAX_SPEED - MIN_SPEED, EXP_FACTOR_DEN),
                             temp.num - TEMP_LOW * temp.den, EXP_FACTOR_NUM)) > 0

\* the curve's value at temp is above the integer m
CurveGreater(temp, m) ==
    IF temp.num <= TEMP_LOW * temp.den THEN MIN_SPEED > m
    ELSE IF temp.num >= TEMP_HIGH * temp.den THEN MAX_SPEED > m
    ELSE \/ m < MIN_SPEED
         \/ PowCmp(m - MIN_SPEED,
                   BigPowMul(<<1>>, (TEMP_HIGH - TEMP_LOW) * temp.den, EXP_FACTOR_NUM),
                   BigPowMul(BigPowMul(<<1>>, MAX_SPEED - MIN_SPEED, EXP_FACTOR_DEN),
                             temp.num - TEMP_LOW * temp.den, EXP_FACTOR_NUM)) < 0

\* |curve(temp) - prev| < HYSTERESIS
CurveNear(temp, prev) ==
    CurveGreater(temp, prev - HYSTERESIS) /\ CurveLess(temp, prev + HYSTERESIS)

\* the curve's value at temp cut to its integer part
CurveTruncated(temp) ==
    CHOOSE k \in MIN_SPEED..MAX_SPEED : ~CurveLess(temp, k) /\ CurveLess(temp, k + 1)

TickDecided ==
    \/ pc = "write"
    \/ pc = "sleep" /\ Ready /\ new_fan_speed = current_fan_speed

\* the curve output cut to an integer first (the claim's target)
IntTarget == ExponentialFanCurve(Smoothed).int

\* C12 as stated: the decision of a warmed-up tick is prev when
\* |target - prev| < 2 for the integer target, and target otherwise.
C12_DecisionOnIntegerTarget ==
    TickDecided =>
        new_fan_speed =
            IF /\ IntTarget - current_fan_speed < HYSTERESIS
               /\ current_fan_speed - IntTarget < HYSTERESIS
            THEN current_fan_speed
            ELSE IntTarget

\* C12 amended: the decision of a warmed-up tick is prev when
\* |curve - prev| < 2 for the curve output before truncation, and the curve
\* output cut to an integer otherwise.
C12_DecisionOnCurveOutput ==
    TickDecided =>
        new_fan_speed =
            IF CurveNear(Smoothed, current_fan_speed)
            THEN current_fan_speed
            ELSE IntTarget

\* C12 witness: the curve output is less than 2 below prev, its integer
\* part is exactly 2 below, and the tick has kept prev
C12_Witness ==
    /\ pc = "sleep"
    /\ Ready
    /\ new_fan_speed = current_fan_speed
    /\ IntTarget = current_fan_speed - HYSTERESIS

\* the tick that made the window ready has decided, and no later reading
\* has been added: new_fan_speed is the first decision of the run
FirstDecision ==
    /\ Len(temperature_history) = window_size \div 2
    /\ new_fan_speed # None

\* C13 as stated: the first decision of the run is the computed value,
\* whatever its distance from the initial speed.
C13_FirstDecisionUnconditional ==
    FirstDecision => new_fan_speed = IntTarget

\* C13 amended: the first decision of the run is taken with the initial
\* speed MIN_SPEED as the previous value; it is MIN_SPEED when the curve
\* output is less than 2 away from MIN_SPEED and the computed value otherwise.
C13_FirstDecisionAgainstInitial ==
    FirstDecision =>
        new_fan_speed =
            IF CurveNear(Smoothed, MIN_SPEED) THEN MIN_SPEED ELSE IntTarget

\* C13 witness: the first decision kept the initial speed although the
\* computed value is above it
C13_Witness ==
    /\ FirstDecision
    /\ pc = "sleep"
    /\ new_fan_speed = MIN_SPEED
    /\ current_fan_speed = MIN_SPEED
    /\ IntTarget > MIN_SPEED

\* the last min(added, window_size) values added, oldest first
LastAdded ==
    SubSeq(addedLog, added - Min2(added, window_size) + 1, added)

\* C14: after any sequence of adds the window is the last
\* min(n, window_size) values added, in the order added, so never longer
\* than window_size; an add on a full window drops the oldest value only;
\* and the window changes in no step other than an add.
C14_WindowIsLastAdded ==
    /\ [](pc = "avg" =>
            /\ Len(addedLog) = added
            /\ temperature_history = LastAdded
            /\ Len(temperature_history) <= window_size)
    /\ [][pc = "avg" =>
            /\ (added' = added + 1 /\ Len(temperature_history) = window_size =>
                    temperature_history' =
                        Append(Tail(temperature_history), addedLog'[added']))
            /\ (temperature_history' # temperature_history =>
                    added' = added + 1)]_vars

\* C14 witness: two values have been evicted from a window of three, and a
\* query has been answered on it
C14_Witness ==
    /\ pc = "avg"
    /\ window_size = 3
    /\ addedLog = <<56, 102, 102, 56, 102>>
    /\ temperature_history = <<102, 56, 102>>
    /\ averResult = <<"max", 102>>

\* C15: for every temperature the curve's value lies within
\* [MIN_SPEED, MAX_SPEED]; it is exactly MIN_SPEED for every temperature at
\* or below TEMP_LOW and exactly MAX_SPEED for every temperature at or above
\* TEMP_HIGH.
C15_CurveRangeAndEnds ==
    pc = "curve_done" =>
        /\ fan_speed.int >= MIN_SPEED
        /\ \/ fan_speed.int < MAX_SPEED
           \/ fan_speed = Float(MAX_SPEED, FALSE)
        /\ (Smoothed.num <= TEMP_LOW * Smoothed.den =>
                fan_speed = Float(MIN_SPEED, FALSE))
        /\ (Smoothed.num >= TEMP_HIGH * Smoothed.den =>
                fan_speed = Float(MAX_SPEED, FALSE))

\* C15 witness: the curve evaluated exactly at the upper breakpoint
C15_Witness ==
    /\ pc = "curve_done"
    /\ temperature_history = <<TEMP_HIGH>>
    /\ fan_speed = Float(MAX_SPEED, FALSE)

\* a warmed-up tick has ended and no command of it failed: none was needed,
\* or the one issued succeeded and was assigned
TickSettled ==
    /\ pc = "sleep"
    /\ Ready
    /\ new_fan_speed = current_fan_speed

\* C16: after a warmed-up tick whose commands the actuator accepts, the
\* applied speed is MAX_SPEED when the smoothed temperature is at or above
\* TEMP_HIGH and MIN_SPEED when it is at or below TEMP_LOW.
C16_EndsReachLimits ==
    TickSettled =>
        /\ (Smoothed.num >= TEMP_HIGH * Smoothed.den =>
                current_fan_speed = MAX_SPEED)
        /\ (Smoothed.num <= TEMP_LOW * Smoothed.den =>
                current_fan_speed = MIN_SPEED)

\* C17: the handler does nothing but set should_exit: it produces no
\* output, reads no sensor and writes no command; should_exit starts false,
\* is set by the handler only and never returns to false.
C17_HandlerOnlySetsFlag ==
    /\ [](~handler_output)
    /\ [][/\ (should_exit => should_exit')
          /\ (should_exit' # should_exit =>
                UNCHANGED <<pc, temperature_history, current_fan_speed,
                            new_fan_speed, current_max_temp, lastDelivered>>)
         ]_vars

\* C18: the process exits with status zero when the loop ends on a
\* shutdown request, and with a non-zero status when it ends on an
\* unexpected error raised inside the loop.
C18_ExitStatusTellsError ==
    /\ (pc = "done" => ExitStatus = 0)
    /\ (pc = "caught" => ExitStatus # 0)

\* C19: after every warmed-up tick in which no command failed, the applied
\* speed is less than 2 away from the curve's value for the tick's smoothed
\* temperature.
C19_AppliedTracksCurve ==
    TickSettled => CurveNear(Smoothed, current_fan_speed)

\* C19 witness: a settled tick above MIN_SPEED whose applied speed is not
\* the curve's integer part
C19_Witness ==
    /\ TickSettled
    /\ current_fan_speed > MIN_SPEED
    /\ IntTarget = current_fan_speed + 1

\* C20: a tick issues at most one command (a command is issued only on
\* leaving the reading, and the tick then goes to its sleep, through the
\* assignment when the command succeeded), and every command of the loop
\* carries a whole percentage at least 2 away from current_fan_speed, so
\* never current_fan_speed itself nor a value 1 away from it.
C20_OneDistinctCommandPerTick ==
    /\ [](pc = "write" =>
            /\ new_fan_speed \in Int
            /\ ClampPercent(new_fan_speed) = new_fan_speed
            /\ \/ new_fan_speed - current_fan_speed >= HYSTERESIS
               \/ current_fan_speed - new_fan_speed >= HYSTERESIS)
    /\ [][/\ (pc' = "write" /\ pc # "write" => pc = "read")
          /\ (pc = "write" /\ pc' # "write" => pc' \in {"assign", "sleep"})
          /\ (pc = "assign" /\ pc' # "assign" => pc' = "sleep")
          /\ (pc = "sleep" /\ pc' # "sleep" => pc' = "top")
         ]_vars

\* C20 witness: a command that lowers the speed by 3 is in flight
C20_Witness ==
    /\ pc = "write"
    /\ new_fan_speed = current_fan_speed - 3

====
